---- MODULE Spec2Model ----
(***************************************************************************)
(* DefaultTokenService of mp/client/token_service.go: a cached access      *)
(* token guarded by a sync.RWMutex, refreshed by the goroutine             *)
(* tokenAutoUpdate on a time.Ticker, and by TokenRefresh on demand, which  *)
(* reprograms the ticker through the unbuffered channel                    *)
(* resetTokenRefreshTickChan.                                              *)
(***************************************************************************)
EXTENDS Integers, FiniteSets, Sequences, TLC

(***************************************************************************)
(* int64 / time.Duration arithmetic.  A 64-bit two's complement integer is *)
(* four 16-bit limbs, least significant first, so that the wrap-around of  *)
(* Go's int64 arithmetic is kept.                                          *)
(***************************************************************************)
LimbBase == 65536

\* The int64 whose value is the small natural n (0 <= n < 2^31).
I64(n) == <<n % LimbBase, n \div LimbBase, 0, 0>>

\* x < 0 : the sign bit of the top limb.
IsNeg(x) == x[4] >= LimbBase \div 2

IsZero(x) == x = <<0, 0, 0, 0>>

\* x > c for a small natural c (the comparisons of getNewToken's switch).
GtSmall(x, c) ==
    /\ ~IsNeg(x)
    /\ \/ x[4] > 0
       \/ x[3] > 0
       \/ x[2] > c \div LimbBase
       \/ x[2] = c \div LimbBase /\ x[1] > c % LimbBase

\* x - c modulo 2^64, for a small natural c < LimbBase.
SubSmall(x, c) ==
    LET d1 == x[1] - c
        b1 == IF d1 < 0 THEN 1 ELSE 0
        d2 == x[2] - b1
        b2 == IF d2 < 0 THEN 1 ELSE 0
        d3 == x[3] - b2
        b3 == IF d3 < 0 THEN 1 ELSE 0
        d4 == x[4] - b3
    IN  <<d1 % LimbBase, d2 % LimbBase, d3 % LimbBase, d4 % LimbBase>>

\* x * k modulo 2^64, for a small natural k (k <= 1000).
MulSmall(x, k) ==
    LET p1 == x[1] * k
        p2 == x[2] * k + p1 \div LimbBase
        p3 == x[3] * k + p2 \div LimbBase
        p4 == x[4] * k + p3 \div LimbBase
    IN  <<p1 % LimbBase, p2 % LimbBase, p3 % LimbBase, p4 % LimbBase>>

\* The carry out of bit 64 of x * k: nonzero when the product does not fit.
MulCarry(x, k) ==
    LET p1 == x[1] * k
        p2 == x[2] * k + p1 \div LimbBase
        p3 == x[3] * k + p2 \div LimbBase
        p4 == x[4] * k + p3 \div LimbBase
    IN  p4 \div LimbBase

\* time.Duration(n) * time.Second : n * 10^9 in int64, wrapping.
Seconds(n) == MulSmall(MulSmall(MulSmall(n, 1000), 1000), 1000)

\* time.Minute == 60 * time.Second
Minute == Seconds(I64(60))

\* The product n * 10^9 of a non-negative n fits in an int64: the Duration
\* Seconds(n) then is n seconds, and otherwise it is a wrapped-around value.
FitsDuration(n) ==
    LET a == MulSmall(n, 1000)
        b == MulSmall(a, 1000)
        c == MulSmall(b, 1000)
    IN  /\ ~IsNeg(n)
        /\ MulCarry(n, 1000) = 0 /\ ~IsNeg(a)
        /\ MulCarry(a, 1000) = 0 /\ ~IsNeg(b)
        /\ MulCarry(b, 1000) = 0 /\ ~IsNeg(c)


(***************************************************************************)
(* The processes: the goroutine tokenAutoUpdate, the goroutines that call  *)
(* TokenRefresh and the goroutines that call Token.                        *)
(***************************************************************************)
Bg == "bg"
Refreshers == {"f1", "f2"}
Readers == {"g1", "g2"}
Writers == {Bg} \cup Refreshers
Procs == Writers \cup Readers
None == "none"
Nil == "nil"

\* Periods of a ticker that are counted (the count saturates there).
MaxTicks == 2
\* Steps in which one period of a ticker elapses.
Phases == 2

(***************************************************************************)
(* What the token endpoint can answer to getNewToken's HTTP GET.           *)
(***************************************************************************)
\* 2^62 seconds: (2^62 - 600) * 10^9 wraps around to -600 * 10^9.
HugeExpiry == <<0, 0, 0, 16384>>

Outcome(kind, code, tok, exp) ==
    [kind |-> kind, ErrCode |-> code, Token |-> tok, ExpiresIn |-> exp]
NoOutcome == Outcome(None, 0, "", I64(0))
\* httpClient.Get fails; the status is not 200; the body is not JSON; the
\* body carries an errcode.
FailedOutcomes ==
    { Outcome("geterr", 0, "", I64(0)), Outcome("status", 0, "", I64(0)),
      Outcome("decode", 0, "", I64(0)), Outcome("json", 40001, "", I64(0)) }
\* The body is a token response: the usual one, a short-lived one, one with
\* no access_token, one with a zero expires_in, one with a huge expires_in.
ReplyOutcomes ==
    { Outcome("json", 0, "a", I64(7200)), Outcome("json", 0, "b", I64(60)),
      Outcome("json", 0, "", I64(7200)), Outcome("json", 0, "a", I64(0)),
      Outcome("json", 0, "b", HugeExpiry) }
\* The answers the service is run against.
FetchOutcomes == FailedOutcomes \cup ReplyOutcomes

\* The result (resp, err) of getNewToken: err = Nil means resp is not nil and
\* holds Token and ExpiresIn.
Result(err, tok, exp) == [err |-> err, Token |-> tok, ExpiresIn |-> exp]

\* The switch with its first case written >= : an hour sharp loses ten
\* minutes instead of five.
ExpiryBufferHourInclusive(tok, r) ==
    CASE GtSmall(r, 60 * 60 - 1) -> Result(Nil, tok, SubSmall(r, 60 * 10))
      [] GtSmall(r, 60 * 30) -> Result(Nil, tok, SubSmall(r, 60 * 5))
      [] GtSmall(r, 60 * 5)  -> Result(Nil, tok, SubSmall(r, 60))
      [] GtSmall(r, 60)      -> Result(Nil, tok, SubSmall(r, 10))
      [] GtSmall(r, 0)       -> Result(Nil, tok, r)
      [] OTHER               -> Result("ErrExpiresIn", "", I64(0))

\* The switch with its last case written >= 0: an expires_in of zero is
\* taken for a lifetime.
ExpiryBufferZeroValid(tok, r) ==
    CASE GtSmall(r, 60 * 60) -> Result(Nil, tok, SubSmall(r, 60 * 10))
      [] GtSmall(r, 60 * 30) -> Result(Nil, tok, SubSmall(r, 60 * 5))
      [] GtSmall(r, 60 * 5)  -> Result(Nil, tok, SubSmall(r, 60))
      [] GtSmall(r, 60)      -> Result(Nil, tok, SubSmall(r, 10))
      [] ~IsNeg(r)           -> Result(Nil, tok, r)
      [] OTHER               -> Result("ErrExpiresIn", "", I64(0))

\* The switch without its case for the lifetimes of a minute or less: ten
\* seconds are taken from every lifetime up to five minutes.
ExpiryBufferNoFloor(tok, r) ==
    CASE GtSmall(r, 60 * 60) -> Result(Nil, tok, SubSmall(r, 60 * 10))
      [] GtSmall(r, 60 * 30) -> Result(Nil, tok, SubSmall(r, 60 * 5))
      [] GtSmall(r, 60 * 5)  -> Result(Nil, tok, SubSmall(r, 60))
      [] GtSmall(r, 0)       -> Result(Nil, tok, SubSmall(r, 10))
      [] OTHER               -> Result("ErrExpiresIn", "", I64(0))

\* The switch of getNewToken on result.ExpiresIn.
ExpiryBuffer(tok, r) ==
    CASE GtSmall(r, 60 * 60) -> Result(Nil, tok, SubSmall(r, 60 * 10))
      [] GtSmall(r, 60 * 30) -> Result(Nil, tok, SubSmall(r, 60 * 5))
      [] GtSmall(r, 60 * 5)  -> Result(Nil, tok, SubSmall(r, 60))
      [] GtSmall(r, 60)      -> Result(Nil, tok, SubSmall(r, 10))
      [] GtSmall(r, 0)       -> Result(Nil, tok, r)
      [] OTHER               -> Result("ErrExpiresIn", "", I64(0))

getNewToken(o) ==
    CASE o.kind = "geterr" -> Result("ErrGet", "", I64(0))
      [] o.kind = "status" -> Result("ErrStatus", "", I64(0))
      [] o.kind = "decode" -> Result("ErrDecode", "", I64(0))
      [] o.ErrCode # 0     -> Result("ErrCode", "", I64(0))
      [] OTHER             -> ExpiryBuffer(o.Token, o.ExpiresIn)

(***************************************************************************)
(* The state.                                                              *)
(***************************************************************************)
VARIABLES
    constructed,   \* NewDefaultTokenService has returned
    crashed,       \* a goroutine has panicked: the process is gone
    currentToken,  \* srv.currentToken.token and .err
    rw,            \* srv.currentToken.rwmutex
    tickDuration,  \* tokenAutoUpdate's tickDuration
    ticker,        \* tokenAutoUpdate's ticker
    pc,            \* where each goroutine is
    raw,           \* what the endpoint answered to a writer's getNewToken
    ret,           \* the named results (token, err) of Token and TokenRefresh
    lastFetch,     \* history: what the latest getNewToken of all was answered
    polIn, polOut  \* the expiry-buffering policy applied on its own

vars == <<constructed, crashed, currentToken, rw, tickDuration, ticker, pc,
          raw, ret, lastFetch, polIn, polOut>>
svcVars == <<constructed, crashed, currentToken, rw, tickDuration, ticker, pc,
             raw, ret, lastFetch>>

\* The named results (token string, err error) at the start of a call.
NoResult == [token |-> "", err |-> Nil]

\* var ticker *time.Ticker, before the first NewTicker.
NilTicker ==
    [armed |-> FALSE, d |-> I64(0), phase |-> 0, n |-> 0, pending |-> FALSE]
\* time.NewTicker(d): the first tick comes one whole period later.
NewTicker(d) ==
    [armed |-> TRUE, d |-> d, phase |-> 0, n |-> 0, pending |-> FALSE]
\* ticker.Stop(): no more ticks; the channel is not drained, and it is
\* dropped with the ticker at the next NewTicker.
Stopped(t) == [t EXCEPT !.armed = FALSE]

\* sync.RWMutex: w is the holder of the writers' mutex rw.w, active says that
\* this writer has announced itself to the readers, readers are the
\* goroutines inside RLock..RUnlock, blocked the ones RLock makes wait.
FreeRW == [w |-> None, active |-> FALSE, readers |-> {}, blocked |-> {}]

Init ==
    /\ constructed = FALSE
    /\ crashed = FALSE
    /\ currentToken = [token |-> "", err |-> Nil]
    /\ rw = FreeRW
    /\ tickDuration = I64(0)
    /\ ticker = NilTicker
    /\ pc = [p \in Procs |-> IF p = Bg THEN "unborn" ELSE "idle"]
    /\ raw = [w \in Writers |-> NoOutcome]
    /\ ret = [p \in Refreshers \cup Readers |-> NoResult]
    /\ lastFetch = NoOutcome
    /\ polIn = I64(0)
    /\ polOut = Result(None, "", I64(0))

Running == constructed /\ ~crashed

(***************************************************************************)
(* NewDefaultTokenService                                                  *)
(***************************************************************************)
\* The slot the construction stores for the result r of its getNewToken.
NewSlot(r) ==
    IF r.err # Nil THEN [token |-> "", err |-> r.err]
                   ELSE [token |-> r.Token, err |-> Nil]
\* The argument with the failure branch forgotten.
NewTickFromExpiry(r) == Seconds(r.ExpiresIn)
\* The argument of go srv.tokenAutoUpdate(...).
NewTick(r) == IF r.err # Nil THEN Minute ELSE Seconds(r.ExpiresIn)

NewDefaultTokenService(o) ==
    /\ ~constructed
    /\ currentToken' = NewSlot(getNewToken(o))
    /\ tickDuration' = NewTick(getNewToken(o))
    /\ pc' = [pc EXCEPT ![Bg] = "start"]
    /\ constructed' = TRUE
    /\ lastFetch' = o
    /\ UNCHANGED <<crashed, rw, ticker, raw, ret, polIn, polOut>>

(***************************************************************************)
(* sync.RWMutex                                                            *)
(***************************************************************************)
\* Lock(), first half: take the writers' mutex and announce the writer; from
\* here on RLock blocks.
LockAnnounce(w) == [rw EXCEPT !.w = w, !.active = TRUE]
\* A Lock() that does not wait for the readers.
LockAcquiredAtOnce == TRUE
\* Lock(), second half: wait until the readers that were inside have left.
LockAcquired == rw.readers = {}
\* Unlock(): the readers RLock made wait are let in, then the writers' mutex
\* is released.
Unlocked ==
    [w |-> None, active |-> FALSE, readers |-> rw.blocked, blocked |-> {}]
\* RLock() while no writer is announced enters; otherwise it waits.
RLockEnters == ~rw.active

(***************************************************************************)
(* The fetch-and-update sequence shared by TokenRefresh (lines 87-93 and   *)
(* 100-101) and by a firing of tokenAutoUpdate (lines 183-188, 199-200).   *)
(***************************************************************************)
WLock(w) ==
    /\ Running
    /\ pc[w] = "lock"
    /\ rw.w = None
    /\ rw' = LockAnnounce(w)
    /\ pc' = [pc EXCEPT ![w] = "drain"]
    /\ UNCHANGED <<constructed, crashed, currentToken, tickDuration, ticker,
                   raw, ret, lastFetch, polIn, polOut>>

WDrain(w) ==
    /\ Running
    /\ pc[w] = "drain"
    /\ LockAcquired
    /\ pc' = [pc EXCEPT ![w] = "fetch"]
    /\ UNCHANGED <<constructed, crashed, currentToken, rw, tickDuration,
                   ticker, raw, ret, lastFetch, polIn, polOut>>

\* resp, err := srv.getNewToken()
WFetch(w, o) ==
    /\ Running
    /\ pc[w] = "fetch"
    /\ raw' = [raw EXCEPT ![w] = o]
    /\ pc' = [pc EXCEPT ![w] = "wtoken"]
    /\ ret' = IF w \in Refreshers
              THEN [ret EXCEPT ![w].err = getNewToken(o).err]
              ELSE ret
    /\ lastFetch' = o
    /\ UNCHANGED <<constructed, crashed, currentToken, rw, tickDuration,
                   ticker, polIn, polOut>>

\* srv.currentToken.token = "" / resp.Token (and token = resp.Token, line 98)
WriteToken(w) ==
    /\ Running
    /\ pc[w] = "wtoken"
    /\ currentToken' = [currentToken EXCEPT !.token = getNewToken(raw[w]).Token]
    /\ ret' = IF w \in Refreshers
              THEN [ret EXCEPT ![w].token = getNewToken(raw[w]).Token]
              ELSE ret
    /\ pc' = [pc EXCEPT ![w] = "werr"]
    /\ UNCHANGED <<constructed, crashed, rw, tickDuration, ticker, raw,
                   lastFetch, polIn, polOut>>

\* srv.currentToken.err = err / nil
WriteErr(w) ==
    /\ Running
    /\ pc[w] = "werr"
    /\ currentToken' = [currentToken EXCEPT !.err = getNewToken(raw[w]).err]
    /\ pc' = [pc EXCEPT ![w] = IF w = Bg THEN "unlock" ELSE "send"]
    /\ UNCHANGED <<constructed, crashed, rw, tickDuration, ticker, raw, ret,
                   lastFetch, polIn, polOut>>

(***************************************************************************)
(* TokenRefresh                                                            *)
(***************************************************************************)
TokenRefreshCall(f) ==
    /\ Running
    /\ pc[f] = "idle"
    /\ pc' = [pc EXCEPT ![f] = "lock"]
    /\ ret' = [ret EXCEPT ![f] = NoResult]
    /\ UNCHANGED <<constructed, crashed, currentToken, rw, tickDuration,
                   ticker, raw, lastFetch, polIn, polOut>>

\* The send with the failure branch forgotten.
SendValueFromExpiry(r) == Seconds(r.ExpiresIn)
\* What TokenRefresh sends on resetTokenRefreshTickChan (lines 94 and 102).
SendValue(r) == IF r.err # Nil THEN Minute ELSE Seconds(r.ExpiresIn)

\* The deferred Unlock, and the return.
TokenRefreshReturn(f) ==
    /\ Running
    /\ pc[f] = "unlock"
    /\ rw' = Unlocked
    /\ raw' = [raw EXCEPT ![f] = NoOutcome]
    /\ ret' = [ret EXCEPT ![f] = NoResult]
    /\ pc' = [pc EXCEPT ![f] = "idle"]
    /\ UNCHANGED <<constructed, crashed, currentToken, tickDuration, ticker,
                   lastFetch, polIn, polOut>>

(***************************************************************************)
(* tokenAutoUpdate                                                         *)
(***************************************************************************)
\* NEW_TICK_DURATION: ticker = time.NewTicker(tickDuration), which panics
\* when tickDuration <= 0.
BgNewTicker ==
    /\ Running
    /\ pc[Bg] = "start"
    /\ IF IsNeg(tickDuration) \/ IsZero(tickDuration)
       THEN /\ crashed' = TRUE
            /\ pc' = [pc EXCEPT ![Bg] = "panic"]
            /\ UNCHANGED ticker
       ELSE /\ ticker' = NewTicker(tickDuration)
            /\ pc' = [pc EXCEPT ![Bg] = "select"]
            /\ UNCHANGED crashed
    /\ UNCHANGED <<constructed, currentToken, rw, tickDuration, raw, ret,
                   lastFetch, polIn, polOut>>

\* The receive with the received duration dropped: the timer is renewed
\* with the duration the task had.
BgResetKeeping(f) ==
    /\ Running
    /\ pc[Bg] = "select"
    /\ pc[f] = "send"
    /\ ticker' = Stopped(ticker)
    /\ pc' = [pc EXCEPT ![Bg] = "start", ![f] = "unlock"]
    /\ UNCHANGED <<constructed, crashed, currentToken, rw, tickDuration, raw,
                   ret, lastFetch, polIn, polOut>>

\* case tickDuration = <-srv.resetTokenRefreshTickChan: the channel is
\* unbuffered, so this is one step with the send of TokenRefresh.
BgReset(f) ==
    /\ Running
    /\ pc[Bg] = "select"
    /\ pc[f] = "send"
    /\ tickDuration' = SendValue(getNewToken(raw[f]))
    /\ ticker' = Stopped(ticker)
    /\ pc' = [pc EXCEPT ![Bg] = "start", ![f] = "unlock"]
    /\ UNCHANGED <<constructed, crashed, currentToken, rw, raw, ret,
                   lastFetch, polIn, polOut>>

\* case <-ticker.C
BgTick ==
    /\ Running
    /\ pc[Bg] = "select"
    /\ ticker.pending
    /\ ticker' = [ticker EXCEPT !.pending = FALSE]
    /\ pc' = [pc EXCEPT ![Bg] = "lock"]
    /\ UNCHANGED <<constructed, crashed, currentToken, rw, tickDuration, raw,
                   ret, lastFetch, polIn, polOut>>

BgUnlock ==
    /\ Running
    /\ pc[Bg] = "unlock"
    /\ rw' = Unlocked
    /\ pc' = [pc EXCEPT ![Bg] = "adjust"]
    /\ UNCHANGED <<constructed, crashed, currentToken, tickDuration, ticker,
                   raw, ret, lastFetch, polIn, polOut>>

\* The next duration with the failure branch forgotten.
NextTickFromExpiry(r) == Seconds(r.ExpiresIn)
\* The duration the firing wants next (lines 192-194 and 204-207).
NextTick(r) == IF r.err # Nil THEN Minute ELSE Seconds(r.ExpiresIn)

\* A firing that re-arms the timer every time.
RearmAlways(cur, next) == TRUE
\* if tickDuration != defaultTickDuration / newTickDuration
Rearm(cur, next) == cur # next

\* if ... { ticker.Stop(); tickDuration = ...; goto NEW_TICK_DURATION }
BgAdjust ==
    /\ Running
    /\ pc[Bg] = "adjust"
    /\ IF Rearm(tickDuration, NextTick(getNewToken(raw[Bg])))
       THEN /\ ticker' = Stopped(ticker)
            /\ tickDuration' = NextTick(getNewToken(raw[Bg]))
            /\ pc' = [pc EXCEPT ![Bg] = "start"]
       ELSE /\ pc' = [pc EXCEPT ![Bg] = "select"]
            /\ UNCHANGED <<ticker, tickDuration>>
    /\ raw' = [raw EXCEPT ![Bg] = NoOutcome]
    /\ UNCHANGED <<constructed, crashed, currentToken, rw, ret, lastFetch,
                   polIn, polOut>>

\* Time passes: a period of the running ticker elapses in Phases steps, and
\* then a tick is put in ticker.C, whose buffer holds one tick.
Elapse(t) ==
    IF t.phase + 1 < Phases
    THEN [t EXCEPT !.phase = t.phase + 1]
    ELSE [t EXCEPT !.phase = 0, !.pending = TRUE,
                   !.n = IF t.n < MaxTicks THEN t.n + 1 ELSE t.n]

TimePasses ==
    /\ Running
    /\ ticker.armed
    /\ ticker' = Elapse(ticker)
    /\ UNCHANGED <<constructed, crashed, currentToken, rw, tickDuration, pc,
                   raw, ret, lastFetch, polIn, polOut>>

(***************************************************************************)
(* Token                                                                   *)
(***************************************************************************)
\* The call and srv.currentToken.rwmutex.RLock()
TokenCall(g) ==
    /\ Running
    /\ pc[g] = "idle"
    /\ ret' = [ret EXCEPT ![g] = NoResult]
    /\ IF RLockEnters
       THEN /\ rw' = [rw EXCEPT !.readers = @ \cup {g}]
            /\ pc' = [pc EXCEPT ![g] = "rtoken"]
       ELSE /\ rw' = [rw EXCEPT !.blocked = @ \cup {g}]
            /\ pc' = [pc EXCEPT ![g] = "rwait"]
    /\ UNCHANGED <<constructed, crashed, currentToken, tickDuration, ticker,
                   raw, lastFetch, polIn, polOut>>

\* RLock() returns once the writer has unlocked.
RLockWake(g) ==
    /\ Running
    /\ pc[g] = "rwait"
    /\ g \in rw.readers
    /\ pc' = [pc EXCEPT ![g] = "rtoken"]
    /\ UNCHANGED <<constructed, crashed, currentToken, rw, tickDuration,
                   ticker, raw, ret, lastFetch, polIn, polOut>>

\* token = srv.currentToken.token
ReadToken(g) ==
    /\ Running
    /\ pc[g] = "rtoken"
    /\ ret' = [ret EXCEPT ![g].token = currentToken.token]
    /\ pc' = [pc EXCEPT ![g] = "rerr"]
    /\ UNCHANGED <<constructed, crashed, currentToken, rw, tickDuration,
                   ticker, raw, lastFetch, polIn, polOut>>

\* The read of err that takes the error out of the slot.
ReadErrConsuming(g) ==
    /\ Running
    /\ pc[g] = "rerr"
    /\ ret' = [ret EXCEPT ![g].err = currentToken.err]
    /\ currentToken' = [currentToken EXCEPT !.err = Nil]
    /\ pc' = [pc EXCEPT ![g] = "runlock"]
    /\ UNCHANGED <<constructed, crashed, rw, tickDuration, ticker, raw,
                   lastFetch, polIn, polOut>>

\* err = srv.currentToken.err
ReadErr(g) ==
    /\ Running
    /\ pc[g] = "rerr"
    /\ ret' = [ret EXCEPT ![g].err = currentToken.err]
    /\ pc' = [pc EXCEPT ![g] = "runlock"]
    /\ UNCHANGED <<constructed, crashed, currentToken, rw, tickDuration,
                   ticker, raw, lastFetch, polIn, polOut>>

\* srv.currentToken.rwmutex.RUnlock(), and the return.
TokenReturn(g) ==
    /\ Running
    /\ pc[g] = "runlock"
    /\ rw' = [rw EXCEPT !.readers = @ \ {g}]
    /\ ret' = [ret EXCEPT ![g] = NoResult]
    /\ pc' = [pc EXCEPT ![g] = "idle"]
    /\ UNCHANGED <<constructed, crashed, currentToken, tickDuration, ticker,
                   raw, lastFetch, polIn, polOut>>

(***************************************************************************)
(* The specifications.                                                     *)
(***************************************************************************)
Construct == \E o \in FetchOutcomes : NewDefaultTokenService(o)
Lock == \E w \in Writers : WLock(w)
Drain == \E w \in Writers : WDrain(w)
Fetch == \E w \in Writers : \E o \in FetchOutcomes : WFetch(w, o)
StoreToken == \E w \in Writers : WriteToken(w)
StoreErr == \E w \in Writers : WriteErr(w)
RefreshCall == \E f \in Refreshers : TokenRefreshCall(f)
RefreshReturn == \E f \in Refreshers : TokenRefreshReturn(f)
Reset == \E f \in Refreshers : BgReset(f)
ReaderCall == \E g \in Readers : TokenCall(g)
ReaderWake == \E g \in Readers : RLockWake(g)
ReaderToken == \E g \in Readers : ReadToken(g)
ReaderErr == \E g \in Readers : ReadErr(g)
ReaderReturn == \E g \in Readers : TokenReturn(g)

\* The steps the Go scheduler and the clock take whenever they can; the
\* calls of Token and TokenRefresh are the callers' choice.
Steps ==
    \/ Construct \/ Lock \/ Drain \/ Fetch \/ StoreToken \/ StoreErr
    \/ RefreshReturn \/ Reset \/ BgNewTicker \/ BgTick \/ BgUnlock
    \/ BgAdjust \/ TimePasses
    \/ ReaderWake \/ ReaderToken \/ ReaderErr \/ ReaderReturn

Next == Steps \/ RefreshCall \/ ReaderCall

Spec == Init /\ [][Next]_vars

(***************************************************************************)
(* The same service with one goroutine in TokenRefresh and an endpoint     *)
(* that answers with a token or not at all, under the fairness of Go's     *)
(* scheduling: every goroutine that can run does run, the clock advances,  *)
(* and a goroutine waiting in Lock() gets the mutex when it keeps being    *)
(* released (sync.Mutex hands over to a starving waiter).  The calls of    *)
(* Token and TokenRefresh stay the callers' choice.                        *)
(***************************************************************************)
FairRefreshers == {"f1"}
FairWriters == {Bg} \cup FairRefreshers
FairOutcomes ==
    { Outcome("geterr", 0, "", I64(0)), Outcome("json", 0, "a", I64(7200)) }

FairConstruct == \E o \in FairOutcomes : NewDefaultTokenService(o)
FairFetch(w) == \E o \in FairOutcomes : WFetch(w, o)
FairWrite(w) == WLock(w) \/ WDrain(w) \/ FairFetch(w) \/ WriteToken(w) \/ WriteErr(w)
FairRead(g) == RLockWake(g) \/ ReadToken(g) \/ ReadErr(g) \/ TokenReturn(g)
FairBg == BgNewTicker \/ BgTick \/ BgUnlock \/ BgAdjust

FairNext ==
    \/ FairConstruct
    \/ \E w \in FairWriters : FairWrite(w)
    \/ \E f \in FairRefreshers :
          TokenRefreshCall(f) \/ BgReset(f) \/ TokenRefreshReturn(f)
    \/ FairBg
    \/ TimePasses
    \/ \E g \in Readers : TokenCall(g) \/ FairRead(g)

Fairness ==
    /\ WF_vars(FairConstruct)
    /\ WF_vars(TimePasses)
    /\ WF_vars(FairBg)
    /\ \A f \in FairRefreshers : WF_vars(BgReset(f) \/ TokenRefreshReturn(f))
    /\ \A w \in FairWriters : SF_vars(FairWrite(w))
    /\ \A g \in Readers : WF_vars(FairRead(g))

FairSpec == Init /\ [][FairNext]_vars /\ Fairness

(***************************************************************************)
(* The service left to itself after a failed construction: nobody calls    *)
(* TokenRefresh, and from the construction on the endpoint answers every   *)
(* fetch of the background task with a token response that getNewToken     *)
(* accepts.  Token is called at the callers' choice.  The fairness is the  *)
(* scheduler's and the clock's, as above.                                  *)
(***************************************************************************)
RecoverFailures == { o \in FetchOutcomes : getNewToken(o).err # Nil }
RecoverOutcomes == { o \in FetchOutcomes : getNewToken(o).err = Nil }

RecoverConstruct == \E o \in RecoverFailures : NewDefaultTokenService(o)
RecoverFetch == \E o \in RecoverOutcomes : WFetch(Bg, o)
RecoverWrite ==
    WLock(Bg) \/ WDrain(Bg) \/ RecoverFetch \/ WriteToken(Bg) \/ WriteErr(Bg)

RecoverNext ==
    \/ RecoverConstruct
    \/ RecoverWrite
    \/ FairBg
    \/ TimePasses
    \/ \E g \in Readers : TokenCall(g) \/ FairRead(g)

RecoverFairness ==
    /\ WF_vars(RecoverConstruct)
    /\ WF_vars(TimePasses)
    /\ WF_vars(FairBg)
    /\ SF_vars(RecoverWrite)
    /\ \A g \in Readers : WF_vars(FairRead(g))

RecoverSpec == Init /\ [][RecoverNext]_vars /\ RecoverFairness

(***************************************************************************)
(* The expiry-buffering switch on its own: Init draws an expires_in, the   *)
(* one action applies the switch to it.                                    *)
(***************************************************************************)
\* The small expires_in values are 0..MaxRaw.
MaxRaw == 3700
MinInt64 == <<0, 0, 0, 32768>>
MaxInt64 == <<65535, 65535, 65535, 32767>>
PolicyInputs ==
    {I64(n) : n \in 0..MaxRaw}
        \cup {SubSmall(I64(0), 1), SubSmall(I64(0), 600), MinInt64, MaxInt64,
              HugeExpiry, I64(7200)}

ApplyPolicy ==
    /\ polOut.err = None
    /\ polOut' = ExpiryBuffer("a", polIn)
    /\ UNCHANGED <<svcVars, polIn>>

InitPolicy ==
    /\ constructed = FALSE
    /\ crashed = FALSE
    /\ currentToken = NoResult
    /\ rw = FreeRW
    /\ tickDuration = I64(0)
    /\ ticker = NilTicker
    /\ pc = [p \in Procs |-> IF p = Bg THEN "unborn" ELSE "idle"]
    /\ raw = [w \in Writers |-> NoOutcome]
    /\ ret = [p \in Refreshers \cup Readers |-> NoResult]
    /\ lastFetch = NoOutcome
    /\ polIn \in PolicyInputs
    /\ polOut = Result(None, "", I64(0))

SpecPolicy == InitPolicy /\ [][ApplyPolicy]_vars

\* The buffered expiry as a table on the integers.
Buffered(n) ==
    IF n > 3600 THEN n - 600
    ELSE IF n > 1800 THEN n - 300
    ELSE IF n > 300 THEN n - 60
    ELSE IF n > 60 THEN n - 10
    ELSE n
IsSmall(x) == x[2] = 0 /\ x[3] = 0 /\ x[4] = 0
PolicyFails == polOut.err = "ErrExpiresIn" /\ polOut.Token = ""
PolicyGives(e) == polOut.err = Nil /\ polOut.Token = "a" /\ polOut.ExpiresIn = e

(***************************************************************************)
(* C6: the switch maps a raw expiry r to r-600 if r > 3600; r-300 if       *)
(* 1800 < r <= 3600; r-60 if 300 < r <= 1800; r-10 if 60 < r <= 300; r if  *)
(* 1 <= r <= 60; and to an error with no token if r <= 0.                  *)
(***************************************************************************)
PolicyTable ==
    polOut.err # None =>
        /\ IsSmall(polIn) /\ polIn[1] >= 1 => PolicyGives(I64(Buffered(polIn[1])))
        /\ IsSmall(polIn) /\ polIn[1] = 0 => PolicyFails
        /\ IsNeg(polIn) => PolicyFails
        /\ polIn = MaxInt64 => PolicyGives(<<64935, 65535, 65535, 32767>>)
        /\ polIn = HugeExpiry => PolicyGives(<<64936, 65535, 65535, 16383>>)

\* An hour sharp has been mapped to 55 minutes.
PolicyTableWitness ==
    polIn = I64(3600) /\ polOut.err = Nil /\ polOut.ExpiresIn = I64(3300)

\* 60 * 10^9 and 6600 * 10^9 nanoseconds.
SixtySeconds == <<22528, 63559, 13, 0>>
HundredTenMinutes == <<53248, 44711, 1536, 0>>

\* The duration d is the n seconds it was computed from.
IsSeconds(d, n) == FitsDuration(n) /\ d = Seconds(n)

NoCallerBusy == \A p \in Refreshers \cup Readers : pc[p] = "idle"
InToken(g) == pc[g] \in {"rwait", "rtoken", "rerr", "runlock"}
\* g has read both fields and holds the read lock still.
HasRead(g) == pc[g] = "runlock"
InRefresh(f) == pc[f] # "idle"
\* w is between its update of token and its update of err.
MidWrite(w) == pc[w] = "werr"
\* w holds the exclusive lock.
InUpdate(w) == pc[w] \in {"fetch", "wtoken", "werr", "send", "unlock"}

(***************************************************************************)
(* C1: from the moment the construction returns, in every state a reader   *)
(* can observe (no writer is between its two stores), exactly one of       *)
(* 'token is non-empty' and 'error is non-nil' holds.                      *)
(***************************************************************************)
SlotExactlyOne ==
    (constructed /\ \A w \in Writers : ~MidWrite(w)) =>
        ((currentToken.token # "") # (currentToken.err # Nil))

\* What g is about to return is the slot as a whole write left it.
ReturnsWholePair(g) ==
    HasRead(g) => ret[g] = currentToken /\ \A w \in Writers : ~MidWrite(w)

(***************************************************************************)
(* C2: every Token() call running while a TokenRefresh() is in flight      *)
(* returns, and the pair it returns is the pair the slot held before the   *)
(* refresh or the pair it holds after it, never a mix of two writes.       *)
(***************************************************************************)
TokenDuringRefresh ==
    /\ [](\A g \in Readers : ReturnsWholePair(g))
    /\ \A g \in Readers :
          (InToken(g) /\ \E f \in Refreshers : InRefresh(f))
              ~> (pc[g] = "idle" \/ crashed)

(***************************************************************************)
(* C3: every Token() call that has started returns, whatever the callers,  *)
(* the forced refreshes and the background task do, when every fetch       *)
(* returns (the process being alive).                                      *)
(***************************************************************************)
TokenAlwaysReturns ==
    \A g \in Readers : InToken(g) ~> (pc[g] = "idle" \/ crashed)

(***************************************************************************)
(* C4: a construction whose fetch succeeds with raw expiry E > 0 leaves    *)
(* the slot (fetched token, no error) and starts the background task,      *)
(* without waiting for it, with the effective TTL of E as its duration;    *)
(* the task then arms its first timer with that duration.                  *)
(***************************************************************************)
ConstructionSuccess ==
    [][ /\ \A o \in FetchOutcomes :
             (NewDefaultTokenService(o) /\ getNewToken(o).err = Nil) =>
                 /\ currentToken' = [token |-> o.Token, err |-> Nil]
                 /\ pc'[Bg] = "start"
                 /\ IsSeconds(tickDuration', getNewToken(o).ExpiresIn)
        /\ (ticker = NilTicker /\ pc[Bg] = "start" /\ pc'[Bg] # "start") =>
               pc'[Bg] = "select" /\ ticker' = NewTicker(tickDuration)
      ]_vars

(***************************************************************************)
(* C5: a construction whose fetch fails with err leaves the slot           *)
(* ("", err) and starts the background task with a duration of 60 seconds, *)
(* which is the period of the first timer the task arms.                   *)
(***************************************************************************)
ConstructionFailure ==
    [][ /\ \A o \in FetchOutcomes :
             (NewDefaultTokenService(o) /\ getNewToken(o).err # Nil) =>
                 /\ currentToken' = [token |-> "", err |-> getNewToken(o).err]
                 /\ pc'[Bg] = "start"
                 /\ tickDuration' = SixtySeconds
        /\ (constructed /\ ticker = NilTicker) =>
               /\ tickDuration' = tickDuration
               /\ ticker' # NilTicker => ticker' = NewTicker(tickDuration)
      ]_vars

\* The construction has just failed: the task is started and has not run.
ConstructionFailureWitness ==
    /\ constructed /\ NoCallerBusy
    /\ pc[Bg] = "start" /\ ticker = NilTicker
    /\ currentToken = [token |-> "", err |-> "ErrGet"]
    /\ tickDuration = SixtySeconds

(***************************************************************************)
(* C7: a TokenRefresh() that succeeds stores (token, no error), returns    *)
(* that token and reprograms the background task: the pending timer is     *)
(* stopped and the next one runs for the newly computed effective TTL.     *)
(***************************************************************************)
RefreshSuccessReprograms ==
    \A f \in Refreshers :
        (pc[f] = "unlock" /\ getNewToken(raw[f]).err = Nil) =>
            /\ currentToken = [token |-> raw[f].Token, err |-> Nil]
            /\ ret[f] = [token |-> raw[f].Token, err |-> Nil]
            /\ IsSeconds(tickDuration, getNewToken(raw[f]).ExpiresIn)
            /\ ~crashed
            /\ ticker.armed => ticker.d = tickDuration

(***************************************************************************)
(* C8: a TokenRefresh() whose fetch fails with err stores ("", err), sends *)
(* one minute on the channel, so that the background wait becomes 60       *)
(* seconds whatever delay was pending, and returns ("", err).              *)
(***************************************************************************)
RefreshFailureResets ==
    \A f \in Refreshers :
        (pc[f] \in {"send", "unlock"} /\ getNewToken(raw[f]).err # Nil) =>
            /\ currentToken = [token |-> "", err |-> getNewToken(raw[f]).err]
            /\ ret[f] = [token |-> "", err |-> getNewToken(raw[f]).err]
            /\ pc[f] = "unlock" =>
                  /\ tickDuration = SixtySeconds
                  /\ ticker.armed => ticker.d = SixtySeconds
                  /\ ~crashed

\* A failed refresh has been received in the middle of a wait of 110
\* minutes, which is given up.
RefreshFailureResetsWitness ==
    \E f \in Refreshers :
        /\ pc[f] = "unlock" /\ raw[f].kind = "geterr"
        /\ ret[f] = [token |-> "", err |-> "ErrGet"]
        /\ pc[Bg] = "start" /\ tickDuration = SixtySeconds
        /\ ~ticker.armed /\ ticker.d = HundredTenMinutes /\ ticker.phase = 1

Reading(g) == pc[g] \in {"rtoken", "rerr", "runlock"}

(***************************************************************************)
(* C9: after the construction at most one fetch-and-update sequence is in  *)
(* progress, and no Token() reads the slot while one is, in particular not *)
(* between a writer's store of token and its store of err.                 *)
(***************************************************************************)
WritersExcluded ==
    constructed =>
        /\ Cardinality({w \in Writers : InUpdate(w)}) <= 1
        /\ \A w \in Writers : InUpdate(w) => \A g \in Readers : ~Reading(g)

\* A refresh is between its two stores while a firing of the background
\* task waits in Lock() and a Token() waits in RLock().
WritersExcludedWitness ==
    /\ \E f \in Refreshers : MidWrite(f)
    /\ pc[Bg] = "lock"
    /\ \E g \in Readers : pc[g] = "rwait"

SameExpiryFiring ==
    /\ pc[Bg] = "adjust"
    /\ getNewToken(raw[Bg]).err = Nil
    /\ IsSeconds(tickDuration, getNewToken(raw[Bg]).ExpiresIn)

(***************************************************************************)
(* C10: a firing of the background task whose fetch succeeds with the raw  *)
(* expiry the current wait was computed from keeps the wait duration and   *)
(* leaves the running ticker alone: the firings stay one period apart.     *)
(***************************************************************************)
NoDrift ==
    [][ (SameExpiryFiring /\ pc'[Bg] # "adjust") =>
            /\ tickDuration' = tickDuration
            /\ ticker' = ticker
            /\ pc'[Bg] = "select"
      ]_vars

\* A firing has fetched expires_in = 7200 again, two periods of 110 minutes
\* or more after the ticker was armed.
NoDriftWitness ==
    /\ SameExpiryFiring
    /\ raw[Bg].ExpiresIn = I64(7200)
    /\ tickDuration = HundredTenMinutes
    /\ ticker.armed /\ ticker.d = HundredTenMinutes /\ ticker.n = MaxTicks

\* The firing's getNewToken has returned (the answer is kept until the
\* firing is over) with an error, or with a response.
BgFailed == raw[Bg] # NoOutcome /\ getNewToken(raw[Bg]).err # Nil
BgSucceeded == raw[Bg] # NoOutcome /\ getNewToken(raw[Bg]).err = Nil
\* The step is one of tokenAutoUpdate's own.
BgStep == pc'[Bg] # pc[Bg]
\* The step is the firing's comparison of durations (lines 192, 205).
BgAdjusts == pc[Bg] = "adjust" /\ pc'[Bg] # "adjust"

(***************************************************************************)
(* C11: a background firing whose fetch failed with err has stored         *)
(* ("", err) when it comes to unlock; it has released the lock when it     *)
(* turns to the timer; it goes on to wait with exactly one minute, through *)
(* a new timer if the duration was another and with the running timer if   *)
(* it was one minute already; a timer of one minute is armed without a     *)
(* panic; and no step of the task touches a caller's results.              *)
(***************************************************************************)
FiringFailure ==
    [][ /\ (BgFailed /\ pc[Bg] = "unlock") =>
              /\ currentToken = [token |-> "", err |-> getNewToken(raw[Bg]).err]
              /\ rw.w = Bg
        /\ (BgFailed /\ BgAdjusts) =>
              /\ rw.w # Bg
              /\ tickDuration' = SixtySeconds
              /\ IF tickDuration = SixtySeconds
                 THEN pc'[Bg] = "select" /\ ticker' = ticker
                 ELSE pc'[Bg] = "start" /\ ~ticker'.armed
        /\ (pc[Bg] = "start" /\ tickDuration = SixtySeconds /\ BgStep) =>
              /\ pc'[Bg] = "select"
              /\ ticker'.armed /\ ticker'.d = SixtySeconds
              /\ ~crashed'
        /\ (BgStep /\ pc[Bg] \in {"lock", "drain", "fetch", "wtoken", "werr",
                                  "unlock", "adjust"}) =>
              /\ \A g \in Readers : ret'[g] = ret[g]
              /\ \A f \in Refreshers : ret'[f] = ret[f] /\ pc'[f] = pc[f]
      ]_vars

\* A failed firing that ran with 110 minutes is about to switch to one
\* minute, its lock released and the error in the slot.
FiringFailureWitness ==
    /\ BgFailed /\ pc[Bg] = "adjust"
    /\ tickDuration = HundredTenMinutes
    /\ rw.w = None
    /\ currentToken = [token |-> "", err |-> getNewToken(raw[Bg]).err]

(***************************************************************************)
(* C12: a background firing whose fetch succeeded with token t and expiry  *)
(* E has stored (t, no error) when it comes to unlock; it has released the *)
(* lock when it turns to the timer; and it goes on to wait with the        *)
(* effective TTL of E as its duration, through a new timer only if that    *)
(* differs from the duration it had.                                       *)
(***************************************************************************)
FiringSuccess ==
    [][ /\ (BgSucceeded /\ pc[Bg] = "unlock") =>
              /\ currentToken = [token |-> raw[Bg].Token, err |-> Nil]
              /\ rw.w = Bg
        /\ (BgSucceeded /\ BgAdjusts) =>
              /\ rw.w # Bg
              /\ IsSeconds(tickDuration', getNewToken(raw[Bg]).ExpiresIn)
              /\ IF tickDuration' = tickDuration
                 THEN pc'[Bg] = "select" /\ ticker' = ticker
                 ELSE pc'[Bg] = "start" /\ ~ticker'.armed
      ]_vars

\* The duration the code derives from the answer o to a getNewToken: one
\* minute from a failure, the buffered expires_in times time.Second (in
\* int64) from a response.
Derived(o) ==
    IF getNewToken(o).err # Nil THEN SixtySeconds
                                ELSE Seconds(getNewToken(o).ExpiresIn)
\* w has fetched and its duration has not reached the task's tickDuration
\* yet: a firing before its comparison, a TokenRefresh before its send is
\* received.
Undelivered(w) ==
    IF w = Bg THEN raw[Bg] # NoOutcome
              ELSE pc[w] \in {"wtoken", "werr", "send"}
ScheduleSettled == constructed /\ \A w \in Writers : ~Undelivered(w)

(***************************************************************************)
(* C13: whenever every fetch made so far (by the construction, by firings  *)
(* and by TokenRefresh calls) has had its effect on the schedule, the wait *)
(* duration of the background task is the one derived from the fetch that *)
(* returned last of all; a duration derived from an earlier fetch is never *)
(* the one in force then.                                                  *)
(***************************************************************************)
LastRefreshWins == ScheduleSettled => tickDuration = Derived(lastFetch)

\* A firing has completed under the old timer (its tick is consumed, the
\* timer was kept), a TokenRefresh fetched after it and has delivered
\* another duration, and that one is in force.
LastRefreshWinsWitness ==
    /\ pc["f1"] = "unlock" /\ pc[Bg] = "start"
    /\ ticker.n >= 1 /\ ~ticker.pending
    /\ lastFetch = raw["f1"]
    /\ tickDuration = Derived(raw["f1"])
    /\ tickDuration # ticker.d

\* The answer o is a token response (no transport, status, decoding or
\* errcode failure) that carries a token and a non-positive expires_in.
NonPositiveExpiry(o) ==
    /\ o.kind = "json" /\ o.ErrCode = 0
    /\ o.Token # ""
    /\ ~GtSmall(o.ExpiresIn, 0)
\* The slot of a failed fetch whose error is the one about expires_in.
ExpiryErrorSlot == [token |-> "", err |-> "ErrExpiresIn"]

(***************************************************************************)
(* C14: a fetch answered with a token and a non-positive expires_in is a   *)
(* failure on each of the three paths: the construction stores ("", err)   *)
(* and starts the task with one minute; a TokenRefresh has stored and      *)
(* holds as its results ("", err) when it sends, and the duration the task *)
(* receives is one minute; a firing has stored ("", err) when it unlocks   *)
(* and continues with one minute.  The token of the response is stored     *)
(* nowhere.                                                                *)
(***************************************************************************)
NonPositiveExpiryFails ==
    [][ /\ (~constructed /\ constructed' /\ NonPositiveExpiry(lastFetch')) =>
              /\ currentToken' = ExpiryErrorSlot
              /\ tickDuration' = SixtySeconds
        /\ \A f \in Refreshers :
              (NonPositiveExpiry(raw[f]) /\ pc[f] = "send") =>
                  /\ currentToken = ExpiryErrorSlot
                  /\ ret[f] = ExpiryErrorSlot
                  /\ pc'[f] = "unlock" => tickDuration' = SixtySeconds
        /\ (NonPositiveExpiry(raw[Bg]) /\ pc[Bg] = "unlock") =>
              currentToken = ExpiryErrorSlot
        /\ (NonPositiveExpiry(raw[Bg]) /\ BgAdjusts) =>
              tickDuration' = SixtySeconds
      ]_vars

\* A TokenRefresh answered with token "a" and expires_in 0 has failed and
\* has switched the task from 110 minutes to one minute.
NonPositiveExpiryFailsWitness ==
    /\ pc["f1"] = "unlock"
    /\ raw["f1"] = Outcome("json", 0, "a", I64(0))
    /\ ret["f1"] = ExpiryErrorSlot /\ currentToken = ExpiryErrorSlot
    /\ ticker.d = HundredTenMinutes
    /\ tickDuration = SixtySeconds

(***************************************************************************)
(* C15: no step of a Token() call changes the slot's token or error, the   *)
(* background task's position, duration or timer, or the position of a     *)
(* TokenRefresh (so nothing passes the control channel); none fetches,     *)
(* takes the writers' lock or ends the process; and the error the call     *)
(* reads is the slot's error as it is, whether nil or not.                 *)
(***************************************************************************)
TokenReadOnly ==
    [][ \A g \in Readers : pc'[g] # pc[g] =>
            /\ currentToken' = currentToken
            /\ tickDuration' = tickDuration /\ ticker' = ticker
            /\ pc'[Bg] = pc[Bg]
            /\ \A f \in Refreshers : pc'[f] = pc[f] /\ ret'[f] = ret[f]
            /\ raw' = raw /\ lastFetch' = lastFetch
            /\ rw'.w = rw.w /\ rw'.active = rw.active
            /\ crashed' = crashed
            /\ pc'[g] = "runlock" => ret'[g].err = currentToken.err
      ]_vars

\* A Token() call has read ("", err) from a slot that holds an error, and
\* the slot holds it still; the task waits in its select, nobody fetches.
TokenReadOnlyWitness ==
    /\ pc["g1"] = "runlock"
    /\ currentToken.err # Nil
    /\ ret["g1"] = currentToken
    /\ pc[Bg] = "select"
    /\ \A w \in Writers : raw[w] = NoOutcome
    /\ \A f \in Refreshers : pc[f] = "idle"

(***************************************************************************)
(* C16: the background task never comes to rest: under the fairness of     *)
(* the scheduler and the clock, with every fetch returning and whatever    *)
(* TokenRefresh calls are made, it is for ever again waiting in its select *)
(* and for ever again out of it, firing or renewing its timer.             *)
(***************************************************************************)
TaskNeverRests == ([]<>(pc[Bg] = "select")) /\ ([]<>(pc[Bg] # "select"))

\* The slot holds the token of the latest answer with no error, and the
\* task waits on a timer of the effective TTL of that answer's expires_in.
Recovered ==
    /\ currentToken = [token |-> lastFetch.Token, err |-> Nil]
    /\ pc[Bg] = "select"
    /\ IsSeconds(tickDuration, getNewToken(lastFetch).ExpiresIn)
    /\ ticker.armed /\ ticker.d = tickDuration

(***************************************************************************)
(* C17: with the slot holding ("", err), every fetch succeeding from then  *)
(* on and nobody calling TokenRefresh, the slot eventually holds the       *)
(* fetched token with no error and the background task eventually waits    *)
(* with the effective TTL of the expires_in the server declared.           *)
(***************************************************************************)
SelfStabilises ==
    (constructed /\ currentToken.token = "" /\ currentToken.err # Nil)
        ~> Recovered

\* x <= y for int64 values that are not negative.
LessEq(x, y) ==
    \/ x = y
    \/ \E i \in 1..4 : x[i] < y[i] /\ \A j \in (i + 1)..4 : x[j] = y[j]

(***************************************************************************)
(* C18: for every expires_in r > 0 the switch returns an effective TTL e   *)
(* with 0 < e <= r: the margin never takes a lifetime to zero or below,    *)
(* and the result never exceeds what the server declared.                  *)
(***************************************************************************)
EffectiveWithinRaw ==
    (polOut.err # None /\ GtSmall(polIn, 0)) =>
        /\ polOut.err = Nil
        /\ ~IsNeg(polOut.ExpiresIn) /\ ~IsZero(polOut.ExpiresIn)
        /\ LessEq(polOut.ExpiresIn, polIn)

\* The shortest lifetime that loses a margin: 61 seconds give 51.
EffectiveWithinRawWitness ==
    polIn = I64(61) /\ polOut.err = Nil /\ polOut.ExpiresIn = I64(51)

(***************************************************************************)
(* C19: no reachable state has a TokenRefresh blocked in its send on the   *)
(* control channel, the exclusive lock in its hands, while the background  *)
(* task has taken a tick and is blocked in Lock().                         *)
(***************************************************************************)
RefreshNeverStuck ==
    \A f \in Refreshers : ~(pc[f] = "send" /\ rw.w = f /\ pc[Bg] = "lock")

\* d > 0 as a time.Duration.
Positive(d) == ~IsNeg(d) /\ ~IsZero(d)

(***************************************************************************)
(* C20: every duration the background task is about to arm its timer with *)
(* (the construction's, a received one, the one-minute default, a firing's *)
(* new one) is strictly positive, every armed timer has a strictly         *)
(* positive period, and time.NewTicker never panics.                       *)
(***************************************************************************)
TimerDurationsPositive ==
    /\ pc[Bg] = "start" => Positive(tickDuration)
    /\ ticker.armed => Positive(ticker.d)
    /\ ~crashed

==============================================================================
